---- MODULE Spec2Model ----
(***************************************************************************)
(* State-machine model of the bulk DNS resolver pipeline: the coordinator  *)
(* (processDNSQueries and the tail of main), the dnsWorker goroutines with *)
(* performDNSQuery, the resultProcessor with the WildcardDetector, the     *)
(* ResolverPool, the RateLimiter and the Stats counters.                   *)
(***************************************************************************)
EXTENDS Integers, Sequences, FiniteSets, TLC

\* ------------------------------------------------------------------ bounds
MaxWorkers == 2
MaxTypes == 2
MaxRetries == 1
MaxResolvers == 2
MaxDomains == 2
\* the most UDP exchanges the workers of one run can make
MaxExchanges == 2

\* ------------------------------------------------------- program constants
defaultQPS == 100
ProbeCount == 3

\* configured QPS of the modelled run (flag -qps)
QPS == 10
\* tokens in the comma-separated list of flag -t
MaxTokens == 2
\* the values of -qps in the runs that exercise the limiter
QpsFlags == {0, 5, 25}

\* ------------------------------------------------------------------ inputs
\* A line is a sequence of tokens: " " (white space), "#" and domain labels
\* (the dots between labels are implicit).
Preamble == << <<"#", "note">>, <<" ">> >>
DomainLines ==
  << <<" ", "a", "wild", "test", " ">>,
     <<"b", "wild", "test">>,
     <<"c", "other", "test">>,
     <<"d", "other", "test">>,
     <<"e", "wild", "test">>,
     <<"localhost">> >>

\* the record types of flag -t, in configured order
AllQueryTypes == <<"A", "AAAA", "MX">>

\* resolver addresses, in pool order
AllResolvers == <<"U1", "U2", "U3">>

NoErr == [kind |-> "nil", attempt |-> 0]
NoResolversErr == [kind |-> "no resolvers available", attempt |-> 0]
\* the error value returned by the exchange of the given attempt
ExchangeErr(attempt) == [kind |-> "exchange", attempt |-> attempt]

NoDomain == <<>>
NoResult == [domain |-> NoDomain, qtype |-> "", hasResp |-> FALSE, rcode |-> "",
             answer |-> <<>>, err |-> NoErr, resolver |-> ""]

\* what one UDP exchange of a worker can come back with: an error (timeout,
\* network error, aborted), or a response message with its rcode and answer
NoResponse == [ok |-> FALSE, rcode |-> "", answer |-> <<>>]
WorkerOutcomes ==
  { NoResponse,
    [ok |-> TRUE, rcode |-> "NOERROR", answer |-> <<>>],
    [ok |-> TRUE, rcode |-> "REFUSED", answer |-> <<>>],
    [ok |-> TRUE, rcode |-> "NOERROR", answer |-> <<"10.0.0.1">>] }

\* answer lists a wildcard probe can extract (empty also stands for a failed
\* exchange, queryDomain returns nil for both)
ProbeAnswers == { <<>>, <<"10.0.0.1", "10.0.0.2">>, <<"10.0.0.2", "10.0.0.1">> }

\* --------------------------------------------------------- pure functions
RECURSIVE TrimLeft(_)
TrimLeft(s) == IF Len(s) > 0 /\ s[1] = " " THEN TrimLeft(Tail(s)) ELSE s

RECURSIVE TrimRight(_)
TrimRight(s) ==
  IF Len(s) > 0 /\ s[Len(s)] = " " THEN TrimRight(SubSeq(s, 1, Len(s) - 1)) ELSE s

TrimSpace(s) == TrimRight(TrimLeft(s))

\* ---- parseQueryTypes (main.go:231-266); a string is a sequence of characters
LowerLetters == << "a", "b", "c", "d", "e", "f", "g", "h", "i", "j", "k", "l", "m",
                   "n", "o", "p", "q", "r", "s", "t", "u", "v", "w", "x", "y", "z" >>
UpperLetters == << "A", "B", "C", "D", "E", "F", "G", "H", "I", "J", "K", "L", "M",
                   "N", "O", "P", "Q", "R", "S", "T", "U", "V", "W", "X", "Y", "Z" >>
DecimalDigits == << "0", "1", "2", "3", "4", "5", "6", "7", "8", "9" >>

ToUpperChar(c) ==
  IF \E i \in 1..Len(LowerLetters) : LowerLetters[i] = c
  THEN UpperLetters[CHOOSE i \in 1..Len(LowerLetters) : LowerLetters[i] = c]
  ELSE c

\* the flag is taken as typed
ToUpperAsTyped(s) == s

\* strings.ToUpper
ToUpper(s) == [i \in 1..Len(s) |-> ToUpperChar(s[i])]

\* strings.Split(s, ","): the empty string splits into one empty token
RECURSIVE Split(_)
Split(s) ==
  IF \E i \in 1..Len(s) : s[i] = ","
  THEN LET i == CHOOSE j \in 1..Len(s) :
                  s[j] = "," /\ \A k \in 1..(j - 1) : s[k] # ","
       IN  << SubSeq(s, 1, i - 1) >> \o Split(SubSeq(s, i + 1, Len(s)))
  ELSE << s >>

\* the typeMap of parseQueryTypes with the codes of miekg/dns; 0 for no entry
typeMap(t) ==
  CASE t = <<"A">> -> 1
    [] t = <<"A", "A", "A", "A">> -> 28
    [] t = <<"C", "N", "A", "M", "E">> -> 5
    [] t = <<"M", "X">> -> 15
    [] t = <<"N", "S">> -> 2
    [] t = <<"T", "X", "T">> -> 16
    [] t = <<"S", "O", "A">> -> 6
    [] t = <<"P", "T", "R">> -> 12
    [] t = <<"S", "R", "V">> -> 33
    [] OTHER -> 0

IsDigit(c) == \E d \in 1..Len(DecimalDigits) : DecimalDigits[d] = c
DigitValue(c) == (CHOOSE d \in 1..Len(DecimalDigits) : DecimalDigits[d] = c) - 1

RECURSIVE DigitsValue(_)
DigitsValue(s) ==
  IF Len(s) = 0 THEN 0
  ELSE 10 * DigitsValue(SubSeq(s, 1, Len(s) - 1)) + DigitValue(s[Len(s)])

\* strconv.Atoi: an optional sign and at least one decimal digit
Atoi(t) ==
  LET signed == Len(t) > 0 /\ t[1] \in {"+", "-"}
      digits == IF signed THEN Tail(t) ELSE t
  IN  IF Len(digits) > 0 /\ \A i \in 1..Len(digits) : IsDigit(digits[i])
      THEN [err |-> FALSE,
            num |-> IF signed /\ t[1] = "-" THEN 0 - DigitsValue(digits)
                    ELSE DigitsValue(digits)]
      ELSE [err |-> TRUE, num |-> 0]

\* main.go:248-259: the code of one token, 0 when it is rejected
TokenType(tok) ==
  LET t == TrimSpace(tok)
  IN  IF typeMap(t) # 0 THEN typeMap(t)
      ELSE IF ~Atoi(t).err /\ Atoi(t).num > 0 /\ Atoi(t).num < 65536
           THEN Atoi(t).num
           ELSE 0

\* main.go:244-265
parseQueryTypes(queryTypesStr) ==
  LET types == Split(ToUpper(queryTypesStr))
      codes == [i \in 1..Len(types) |-> TokenType(types[i])]
  IN  IF \E i \in 1..Len(types) : codes[i] = 0
      THEN [result |-> <<>>, err |-> TRUE]
      ELSE IF Len(codes) = 0 THEN [result |-> <<1>>, err |-> FALSE]
      ELSE [result |-> codes, err |-> FALSE]

\* ---- lines and names
HasPrefix(s, c) == Len(s) > 0 /\ s[1] = c

\* only the empty lines are skipped
IsSkippedLineEmptyOnly(domain) == domain = <<>>

\* main.go:197
IsSkippedLine(domain) == domain = <<>> \/ HasPrefix(domain, "#")

\* a name of one label is its own base domain
EffectiveTLDPlusOneWhole(domain) ==
  IF Len(domain) >= 2 THEN SubSeq(domain, Len(domain) - 1, Len(domain)) ELSE domain

\* publicsuffix.EffectiveTLDPlusOne with every one-label name a public suffix:
\* the last two labels, an error when there are fewer
BaseErr == <<>>
EffectiveTLDPlusOne(domain) ==
  IF Len(domain) >= 2 THEN SubSeq(domain, Len(domain) - 1, Len(domain)) ELSE BaseErr

Bases == { EffectiveTLDPlusOne(TrimSpace(DomainLines[i])) : i \in 1..Len(DomainLines) }
           \ {BaseErr}

\* only the lengths are compared
sliceEqualLengthOnly(a, b) == Len(a) = Len(b)

\* config.go:239
sliceEqual(a, b) ==
  /\ Len(a) = Len(b)
  /\ \A i \in 1..Len(a) : a[i] = b[i]

\* the burst capacity without its floor of one token
BurstNoFloor(qps) == (IF qps <= 0 THEN defaultQPS ELSE qps) \div 10

\* part_000:15-24 the rate that is used and the burst capacity of the limiter
Burst(qps) ==
  LET q == IF qps <= 0 THEN defaultQPS ELSE qps
      b == q \div 10
  IN IF b < 1 THEN 1 ELSE b

\* ------------------------------------------------------------------- state
VARIABLES
  cfg,          \* the parsed configuration of the run
  ctxDone,      \* the root context has been cancelled
  coord,        \* main / processDNSQueries: pc and position in the input
  domainChan, domainClosed,
  resultChan, resultClosed,
  stats,        \* the six atomic counters
  finalStats,   \* what PrintFinalStats read
  tokens,       \* tokens in the limiter's bucket
  pool,         \* resolver list length and round-robin cursor
  wk,           \* per worker goroutine: pc and locals
  rp,           \* result processor goroutine: pc and locals
  cache,        \* WildcardDetector.cache
  output,       \* results handed to the output writer, in order
  crashed,      \* a goroutine has panicked
  hist          \* history of the run, read by the properties only

vars == << cfg, ctxDone, coord, domainChan, domainClosed, resultChan,
           resultClosed, stats, finalStats, tokens, pool, wk, rp, cache,
           output, crashed, hist >>

Workers == 1..cfg.workers
\* the input of the run: the preamble and cfg.domains domain lines
Input == Preamble \o SubSeq(DomainLines, cfg.first, cfg.first + cfg.domains - 1)
queryTypes == SubSeq(AllQueryTypes, 1, cfg.types)

ZeroStats == [total |-> 0, processed |-> 0, successful |-> 0, errors |-> 0,
              noAnswer |-> 0, wildcards |-> 0]

IdleWorker == [pc |-> "recv", domain |-> NoDomain, qi |-> 0, attempt |-> 0,
               lastErr |-> NoErr, resolver |-> "", result |-> NoResult]

IdleProcessor == [pc |-> "recv", cur |-> NoResult, base |-> BaseErr,
                  probe |-> 0, responses |-> <<>>, verdict |-> FALSE]

\* the process still runs: main has not exited and no goroutine has panicked
Running == coord.pc \notin {"exit0", "exit1"} /\ ~crashed

\* hist.cancelExchanges counts the UDP exchanges completed after the
\* cancellation; it is not kept (-1) in the runs that do not read it, and it
\* stops one past the number of workers, the value it is compared with
NotCounted == 0 - 1
CountLate(n) == IF n = NotCounted \/ n > cfg.workers THEN n ELSE n + 1

\* the configurations of a run: flags -workers, -t, -retries, -w, -qps, the
\* number of resolvers that pass the liveness test, the number of input
\* domains and the domain line the input starts with
AllConfigs ==
  [workers : 1..MaxWorkers, types : 1..MaxTypes, retries : 0..MaxRetries,
   wildcard : BOOLEAN, resolvers : 0..MaxResolvers, domains : 1..MaxDomains,
   qps : {QPS}, first : {1}]

Exchanges(c) == c.domains * c.types * (c.retries + 1)

\* a worker beyond the number of domains only waits for the queue to close
Configs ==
  { c \in AllConfigs : Exchanges(c) <= MaxExchanges /\ c.workers <= c.domains }

\* the round-robin scenario (one worker, no retries, no detector, twice the
\* exchanges) and the runs of a full pool shared by all workers and the probes
RoundRobinConfigs ==
  { c \in AllConfigs :
      /\ c.resolvers = MaxResolvers
      /\ \/ c.workers = 1 /\ c.retries = 0 /\ ~c.wildcard
            /\ Exchanges(c) = 2 * MaxExchanges
         \/ c.workers = MaxWorkers /\ c.wildcard /\ Exchanges(c) <= MaxExchanges }

\* the runs in which every worker retries over a full pool (twice the
\* exchanges, no detector), and the one-worker runs with the detector
RetryConfigs ==
  { c \in AllConfigs :
      /\ c.resolvers = MaxResolvers
      /\ \/ c.workers = MaxWorkers /\ c.retries = MaxRetries /\ ~c.wildcard
            /\ c.workers <= c.domains /\ Exchanges(c) = 2 * MaxExchanges
         \/ c.workers = 1 /\ c.wildcard /\ Exchanges(c) <= MaxExchanges }

\* the one-worker runs with the detector whose input ends with the name that
\* has no base domain
NoBaseConfigs ==
  { c \in { [d EXCEPT !.first = f] :
              d \in { e \in Configs : /\ e.wildcard /\ e.resolvers = 1
                                       /\ e.retries = 0 /\ e.workers = 1 },
              f \in {Len(DomainLines) - 1, Len(DomainLines)} } :
      c.first + c.domains - 1 <= Len(DomainLines) }

\* the runs in which the exchanges completed after the cancellation are counted
CancelConfigs ==
  { c \in Configs : c.workers = 1 /\ c.wildcard /\ c.resolvers = MaxResolvers }

\* the runs in which the limiter's acquisitions and refills are logged: every
\* -qps value, with the detector, one resolver and no retries
LimiterConfigs ==
  { [c EXCEPT !.qps = q] :
      c \in { d \in Configs : /\ d.wildcard /\ d.resolvers = 1 /\ d.retries = 0
                               /\ d.workers = d.domains },
      q \in QpsFlags }

\* the state after construction (main.go:29-67, 176-191)
InitAt(c, counted, logged, start) ==
  /\ cfg = c
  /\ ctxDone = FALSE
  /\ coord = start
  /\ domainChan = <<>> /\ domainClosed = FALSE
  /\ resultChan = <<>> /\ resultClosed = FALSE
  /\ stats = ZeroStats
  /\ finalStats = ZeroStats
  /\ tokens = Burst(c.qps)
  /\ pool = [n |-> c.resolvers, index |-> 0]
  /\ wk = [w \in 1..MaxWorkers |-> IdleWorker]
  /\ rp = IdleProcessor
  /\ cache = [b \in Bases |-> "absent"]
  /\ output = <<>>
  /\ crashed = FALSE
  /\ hist = [rrLog |-> <<>>,
             attempts |-> [w \in 1..MaxWorkers |-> <<>>],
             probeSeqs |-> [b \in Bases |-> 0],
             probeQueries |-> [b \in Bases |-> 0],
             verdicts |-> [b \in Bases |-> {}],
             cancelExchanges |-> counted,
             printed |-> FALSE,
             limiter |-> logged,
             inflight |-> {}]

\* the run from the first input line on
InitWith(c, counted, logged) ==
  InitAt(c, counted, logged, [pc |-> "ingest", pos |-> 1])

Init == \E c \in Configs : InitWith(c, NotCounted, NotCounted)

\* ----------------------------------------------------------- Stats (stats.go)
IncrementTotal(s) == [s EXCEPT !.total = @ + 1]
IncrementProcessed(s) == [s EXCEPT !.processed = @ + 1]
IncrementSuccessful(s) == [s EXCEPT !.successful = @ + 1]
\* the delta of the atomic add with the wrong sign
IncrementErrorsNegative(s) == [s EXCEPT !.errors = @ - 1]
IncrementErrors(s) == [s EXCEPT !.errors = @ + 1]
IncrementNoAnswer(s) == [s EXCEPT !.noAnswer = @ + 1]
IncrementWildcards(s) == [s EXCEPT !.wildcards = @ + 1]

\* ------------------------------------- signal handler goroutine (main.go:69)
\* hist.inflight holds the workers whose exchange was in flight when the
\* context was cancelled, in the runs that count the late exchanges
Signal ==
  /\ Running /\ ~ctxDone
  /\ ctxDone' = TRUE
  /\ hist' = IF hist.cancelExchanges = NotCounted THEN hist
             ELSE [hist EXCEPT !.inflight = {w \in Workers : wk[w].pc = "exchange"}]
  /\ UNCHANGED << cfg, coord, domainChan, domainClosed, resultChan, resultClosed,
                  stats, finalStats, tokens, pool, wk, rp, cache, output,
                  crashed >>

\* --------------------------------------- coordinator: processDNSQueries, main
CurrentLine == TrimSpace(Input[coord.pos])

\* main.go:195-199: an empty or '#' line is skipped
CoordSkipLine ==
  /\ Running /\ coord.pc = "ingest" /\ coord.pos <= Len(Input)
  /\ IsSkippedLine(CurrentLine)
  /\ coord' = [coord EXCEPT !.pos = @ + 1]
  /\ UNCHANGED << cfg, ctxDone, domainChan, domainClosed, resultChan,
                  resultClosed, stats, finalStats, tokens, pool, wk, rp, cache,
                  output, crashed, hist >>

\* main.go:201-202: the send case of the select
CoordSendDomain ==
  /\ Running /\ coord.pc = "ingest" /\ coord.pos <= Len(Input)
  /\ ~IsSkippedLine(CurrentLine)
  /\ Len(domainChan) < cfg.workers
  /\ domainChan' = Append(domainChan, CurrentLine)
  /\ coord' = [coord EXCEPT !.pc = "inctotal"]
  /\ UNCHANGED << cfg, ctxDone, domainClosed, resultChan, resultClosed, stats,
                  finalStats, tokens, pool, wk, rp, cache, output, crashed, hist >>

\* main.go:203
CoordIncrementTotal ==
  /\ Running /\ coord.pc = "inctotal"
  /\ stats' = IncrementTotal(stats)
  /\ coord' = [pc |-> "ingest", pos |-> coord.pos + 1]
  /\ UNCHANGED << cfg, ctxDone, domainChan, domainClosed, resultChan,
                  resultClosed, finalStats, tokens, pool, wk, rp, cache, output,
                  crashed, hist >>

\* main.go:204-206: the ctx.Done case of the select
CoordCancelledIngest ==
  /\ Running /\ coord.pc = "ingest" /\ coord.pos <= Len(Input)
  /\ ~IsSkippedLine(CurrentLine)
  /\ ctxDone
  /\ domainClosed' = TRUE
  /\ coord' = [coord EXCEPT !.pc = "fatal"]
  /\ UNCHANGED << cfg, ctxDone, domainChan, resultChan, resultClosed, stats,
                  finalStats, tokens, pool, wk, rp, cache, output, crashed, hist >>

\* main.go:210: end of input
CoordCloseDomains ==
  /\ Running /\ coord.pc = "ingest" /\ coord.pos > Len(Input)
  /\ domainClosed' = TRUE
  /\ coord' = [coord EXCEPT !.pc = "wait"]
  /\ UNCHANGED << cfg, ctxDone, domainChan, resultChan, resultClosed, stats,
                  finalStats, tokens, pool, wk, rp, cache, output, crashed, hist >>

\* main.go:218 the loop condition of the completion poll
PollDone(s) == ~(s.processed < s.total)

\* main.go:218-221: still waiting and the context is cancelled
CoordPollCancelled ==
  /\ Running /\ coord.pc = "wait"
  /\ ~PollDone(stats)
  /\ ctxDone
  /\ coord' = [coord EXCEPT !.pc = "fatal"]
  /\ UNCHANGED << cfg, ctxDone, domainChan, domainClosed, resultChan,
                  resultClosed, stats, finalStats, tokens, pool, wk, rp, cache,
                  output, crashed, hist >>

\* main.go:218, 227-228: the poll ends, close(resultChan), return nil
CoordComplete ==
  /\ Running /\ coord.pc = "wait"
  /\ PollDone(stats)
  /\ resultClosed' = TRUE
  /\ coord' = [coord EXCEPT !.pc = "returned"]
  /\ UNCHANGED << cfg, ctxDone, domainChan, domainClosed, resultChan, stats,
                  finalStats, tokens, pool, wk, rp, cache, output, crashed, hist >>

\* main.go:82, stats.go:120-126
MainPrintFinalStats ==
  /\ Running /\ coord.pc = "returned"
  /\ finalStats' = stats
  /\ coord' = [coord EXCEPT !.pc = "printed"]
  /\ hist' = [hist EXCEPT !.printed = TRUE]
  /\ UNCHANGED << cfg, ctxDone, domainChan, domainClosed, resultChan,
                  resultClosed, stats, tokens, pool, wk, rp, cache, output,
                  crashed >>

\* main.go:46 deferred resolverPool.Close (resolver.go:156-162)
MainClosePool ==
  /\ Running /\ coord.pc = "printed"
  /\ pool' = [pool EXCEPT !.n = 0]
  /\ coord' = [coord EXCEPT !.pc = "closed"]
  /\ UNCHANGED << cfg, ctxDone, domainChan, domainClosed, resultChan,
                  resultClosed, stats, finalStats, tokens, wk, rp, cache, output,
                  crashed, hist >>

\* main returns: the process exits with status 0
MainExit ==
  /\ Running /\ coord.pc = "closed"
  /\ coord' = [coord EXCEPT !.pc = "exit0"]
  /\ UNCHANGED << cfg, ctxDone, domainChan, domainClosed, resultChan,
                  resultClosed, stats, finalStats, tokens, pool, wk, rp, cache,
                  output, crashed, hist >>

\* main.go:77-79: logger.Fatalf exits with status 1
MainFatal ==
  /\ Running /\ coord.pc = "fatal"
  /\ coord' = [coord EXCEPT !.pc = "exit1"]
  /\ UNCHANGED << cfg, ctxDone, domainChan, domainClosed, resultChan,
                  resultClosed, stats, finalStats, tokens, pool, wk, rp, cache,
                  output, crashed, hist >>

\* ------------------------------------------------- RateLimiter (part_000)
\* hist.limiter is, over all the windows of time that end now, the largest
\* surplus of acquisitions over tokens added in the window (0 for the empty
\* window); it is not kept (-1) in the runs that do not read it
LogLimiter(event) ==
  IF hist.limiter = NotCounted THEN hist
  ELSE [hist EXCEPT !.limiter = IF event = "acquire" THEN @ + 1
                                ELSE IF @ > 0 THEN @ - 1 ELSE 0]

\* a 1/qps part of a second passes: the bucket gains a token, up to its burst
\* capacity
LimiterRefill ==
  /\ Running /\ tokens < Burst(cfg.qps)
  /\ tokens' = tokens + 1
  /\ hist' = LogLimiter("refill")
  /\ UNCHANGED << cfg, ctxDone, coord, domainChan, domainClosed, resultChan,
                  resultClosed, stats, finalStats, pool, wk, rp, cache, output,
                  crashed >>

\* --------------------------------------------- ResolverPool (resolver.go)
\* the cursor is read but not advanced
NextIndexStuck(index, n) == index

\* the cursor is advanced without wrapping around
NextIndexNoWrap(index, n) == index + 1

\* resolver.go:129
NextIndex(index, n) == (index + 1) % n

\* resolver.go:128 the resolver at the cursor
ResolverAt(index) == AllResolvers[index + 1]

\* the random accessor moves the round-robin cursor as GetResolver does
AfterGetRandomResolverAdvancing(p) ==
  IF p.n = 0 THEN p ELSE [p EXCEPT !.index = NextIndex(@, p.n)]

\* resolver.go:135-145: the pool after GetRandomResolver; the call holds the
\* read lock and writes no field
AfterGetRandomResolver(p) == p

\* ------------------------------------------------- dnsWorker (main.go:281)
\* the worker goes back for the next domain after its first result
AfterSendNextDomain(w) == [IdleWorker EXCEPT !.pc = "recv"]

\* the worker's next step after a result has been handed over (main.go:292)
AfterSend(w) ==
  IF wk[w].qi < cfg.types
  THEN [wk[w] EXCEPT !.pc = "ratewait", !.qi = @ + 1, !.result = NoResult]
  ELSE [IdleWorker EXCEPT !.pc = "recv"]

\* main.go:287: a domain is received
WorkerReceive(w) ==
  /\ Running /\ wk[w].pc = "recv"
  /\ Len(domainChan) > 0
  /\ domainChan' = Tail(domainChan)
  /\ wk' = [wk EXCEPT ![w] = [IdleWorker EXCEPT !.pc = "ratewait",
                                               !.domain = Head(domainChan),
                                               !.qi = 1]]
  /\ UNCHANGED << cfg, ctxDone, coord, domainClosed, resultChan, resultClosed,
                  stats, finalStats, tokens, pool, rp, cache, output, crashed,
                  hist >>

\* main.go:288-290: the queue is closed and drained
WorkerDomainsClosed(w) ==
  /\ Running /\ wk[w].pc = "recv"
  /\ Len(domainChan) = 0 /\ domainClosed
  /\ wk' = [wk EXCEPT ![w] = [IdleWorker EXCEPT !.pc = "exit"]]
  /\ UNCHANGED << cfg, ctxDone, coord, domainChan, domainClosed, resultChan,
                  resultClosed, stats, finalStats, tokens, pool, rp, cache,
                  output, crashed, hist >>

\* main.go:306-307
WorkerCancelledRecv(w) ==
  /\ Running /\ wk[w].pc = "recv"
  /\ ctxDone
  /\ wk' = [wk EXCEPT ![w] = [IdleWorker EXCEPT !.pc = "exit"]]
  /\ UNCHANGED << cfg, ctxDone, coord, domainChan, domainClosed, resultChan,
                  resultClosed, stats, finalStats, tokens, pool, rp, cache,
                  output, crashed, hist >>

\* main.go:294: Wait returns with a token, or with an error (dropped by the
\* caller) when the context is cancelled; either way the query follows
WorkerRateWait(w) ==
  /\ Running /\ wk[w].pc = "ratewait"
  /\ \/ ctxDone /\ UNCHANGED << tokens, hist >>
     \/ ~ctxDone /\ tokens > 0 /\ tokens' = tokens - 1
        /\ hist' = LogLimiter("acquire")
  /\ wk' = [wk EXCEPT ![w].pc = "attempt", ![w].attempt = 0, ![w].lastErr = NoErr]
  /\ UNCHANGED << cfg, ctxDone, coord, domainChan, domainClosed, resultChan,
                  resultClosed, stats, finalStats, pool, rp, cache, output,
                  crashed >>

\* the retry loop stops one attempt early
MoreAttemptsOffByOne(attempt, retries) == attempt < retries

\* main.go:317 the loop condition of performDNSQuery
MoreAttempts(attempt, retries) == attempt <= retries

\* main.go:350-354
Failure(w, err) ==
  [NoResult EXCEPT !.domain = wk[w].domain, !.qtype = queryTypes[wk[w].qi],
                   !.err = err]

\* main.go:341-347
Success(w, outcome) ==
  [NoResult EXCEPT !.domain = wk[w].domain, !.qtype = queryTypes[wk[w].qi],
                   !.hasResp = TRUE, !.rcode = outcome.rcode,
                   !.answer = outcome.answer, !.resolver = wk[w].resolver]

\* the worker after a failed attempt: the next attempt, or the Failure
AfterFailedAttempt(w, err) ==
  IF MoreAttempts(wk[w].attempt + 1, cfg.retries)
  THEN [wk[w] EXCEPT !.pc = "attempt", !.attempt = @ + 1, !.lastErr = err,
                     !.resolver = ""]
  ELSE [wk[w] EXCEPT !.pc = "send", !.attempt = @ + 1, !.lastErr = err,
                     !.resolver = "", !.result = Failure(w, err)]

\* main.go:318-322, resolver.go:120-132: GetResolver at the head of an attempt
WorkerGetResolver(w) ==
  /\ Running /\ wk[w].pc = "attempt"
  /\ IF pool.n = 0
     THEN /\ wk' = [wk EXCEPT ![w] = AfterFailedAttempt(w, NoResolversErr)]
          /\ hist' = [hist EXCEPT !.attempts[w] =
                        Append(@, [exchanged |-> FALSE, resolver |-> "",
                                   outcome |-> NoResponse, err |-> NoResolversErr])]
          /\ UNCHANGED pool
     ELSE /\ wk' = [wk EXCEPT ![w].pc = "exchange",
                              ![w].resolver = ResolverAt(pool.index)]
          /\ pool' = [pool EXCEPT !.index = NextIndex(pool.index, pool.n)]
          /\ hist' = [hist EXCEPT !.rrLog = Append(@, ResolverAt(pool.index))]
  /\ UNCHANGED << cfg, ctxDone, coord, domainChan, domainClosed, resultChan,
                  resultClosed, stats, finalStats, tokens, rp, cache, output,
                  crashed >>

\* main.go:328-347: ExchangeContext returns. The library call obeys the
\* deadline of the context it is given; whether an exchange begun under an
\* already cancelled context is refused when dialling or runs to its answer
\* depends on the library version, so every outcome is possible at any time.
WorkerExchangeReturn(w) ==
  /\ Running /\ wk[w].pc = "exchange"
  /\ \E outcome \in WorkerOutcomes :
       LET err == IF outcome.ok THEN NoErr ELSE ExchangeErr(wk[w].attempt)
           entry == [exchanged |-> TRUE, resolver |-> wk[w].resolver,
                     outcome |-> outcome, err |-> err]
       IN /\ wk' = [wk EXCEPT ![w] =
                      IF outcome.ok
                      THEN [wk[w] EXCEPT !.pc = "send", !.result = Success(w, outcome)]
                      ELSE AfterFailedAttempt(w, err)]
          /\ hist' = [hist EXCEPT
                        !.attempts[w] = Append(@, entry),
                        !.inflight = @ \ {w},
                        !.cancelExchanges =
                          IF ctxDone /\ outcome.ok THEN CountLate(@) ELSE @]
  /\ UNCHANGED << cfg, ctxDone, coord, domainChan, domainClosed, resultChan,
                  resultClosed, stats, finalStats, tokens, pool, rp, cache,
                  output, crashed >>

\* main.go:300: the result is sent
WorkerSend(w) ==
  /\ Running /\ wk[w].pc = "send"
  /\ ~resultClosed
  /\ Len(resultChan) < 2 * cfg.workers
  /\ resultChan' = Append(resultChan, wk[w].result)
  /\ wk' = [wk EXCEPT ![w] = AfterSend(w)]
  /\ hist' = [hist EXCEPT !.attempts[w] = <<>>]
  /\ UNCHANGED << cfg, ctxDone, coord, domainChan, domainClosed, resultClosed,
                  stats, finalStats, tokens, pool, rp, cache, output, crashed >>

\* main.go:300: a send on the closed channel panics
WorkerSendClosed(w) ==
  /\ Running /\ wk[w].pc = "send"
  /\ resultClosed
  /\ crashed' = TRUE
  /\ UNCHANGED << cfg, ctxDone, coord, domainChan, domainClosed, resultChan,
                  resultClosed, stats, finalStats, tokens, pool, wk, rp, cache,
                  output, hist >>

\* main.go:301-302
WorkerCancelledSend(w) ==
  /\ Running /\ wk[w].pc = "send"
  /\ ctxDone
  /\ wk' = [wk EXCEPT ![w] = [IdleWorker EXCEPT !.pc = "exit"]]
  /\ hist' = [hist EXCEPT !.attempts[w] = <<>>]
  /\ UNCHANGED << cfg, ctxDone, coord, domainChan, domainClosed, resultChan,
                  resultClosed, stats, finalStats, tokens, pool, rp, cache,
                  output, crashed >>

\* --------------------------------------- WildcardDetector (config.go:61-268)
\* the lookup hands back the "exists" flag of the map access for the value
CacheGetExists(c, base) == c[base] # "absent"

\* config.go:117 the cache lookup
CacheHas(c, base) == c[base] # "absent"
CacheGet(c, base) == c[base] = "wild"

\* only a positive verdict is cached
CacheStorePositiveOnly(c, base, isWildcard) ==
  IF isWildcard THEN [c EXCEPT ![base] = "wild"] ELSE c

\* config.go:128 the cache insertion
CacheStore(c, base, isWildcard) ==
  [c EXCEPT ![base] = IF isWildcard THEN "wild" ELSE "notwild"]

\* config.go:156-169 the verdict over the collected probe answers
DetectVerdict(responses) ==
  IF Len(responses) < 2
  THEN FALSE
  ELSE /\ \A i \in 2..Len(responses) : sliceEqual(responses[1], responses[i])
       /\ Len(responses[1]) > 0

\* the record is put in front of the earlier ones
WriteResultPrepend(out, result) ==
  IF ~result.hasResp \/ Len(result.answer) = 0 THEN out ELSE <<result>> \o out

\* output.go:69-87
WriteResult(out, result) ==
  IF ~result.hasResp \/ Len(result.answer) = 0 THEN out ELSE Append(out, result)

\* --------------------------------------------- resultProcessor (main.go:357)
\* main.go:363: a result is received
RPReceive ==
  /\ Running /\ rp.pc = "recv"
  /\ Len(resultChan) > 0
  /\ resultChan' = Tail(resultChan)
  /\ rp' = [IdleProcessor EXCEPT !.pc = "received", !.cur = Head(resultChan)]
  /\ UNCHANGED << cfg, ctxDone, coord, domainChan, domainClosed, resultClosed,
                  stats, finalStats, tokens, pool, wk, cache, output, crashed,
                  hist >>

\* main.go:364-366: the queue is closed and drained
RPClosed ==
  /\ Running /\ rp.pc = "recv"
  /\ Len(resultChan) = 0 /\ resultClosed
  /\ rp' = [IdleProcessor EXCEPT !.pc = "exit"]
  /\ UNCHANGED << cfg, ctxDone, coord, domainChan, domainClosed, resultChan,
                  resultClosed, stats, finalStats, tokens, pool, wk, cache,
                  output, crashed, hist >>

\* main.go:392-393
RPCancelled ==
  /\ Running /\ rp.pc = "recv"
  /\ ctxDone
  /\ rp' = [IdleProcessor EXCEPT !.pc = "exit"]
  /\ UNCHANGED << cfg, ctxDone, coord, domainChan, domainClosed, resultChan,
                  resultClosed, stats, finalStats, tokens, pool, wk, cache,
                  output, crashed, hist >>

\* main.go:368
RPIncrementProcessed ==
  /\ Running /\ rp.pc = "received"
  /\ stats' = IncrementProcessed(stats)
  /\ rp' = [rp EXCEPT !.pc = "classify"]
  /\ UNCHANGED << cfg, ctxDone, coord, domainChan, domainClosed, resultChan,
                  resultClosed, finalStats, tokens, pool, wk, cache, output,
                  crashed, hist >>

\* only the error of an exchange makes a Failure
IsFailureExchangeOnly(result) == result.err.kind = "exchange"

\* main.go:370 a Failure is a result that carries an error
IsFailure(result) == result.err # NoErr

\* main.go:370-376
RPCountError ==
  /\ Running /\ rp.pc = "classify"
  /\ IsFailure(rp.cur)
  /\ stats' = IncrementErrors(stats)
  /\ rp' = IdleProcessor
  /\ UNCHANGED << cfg, ctxDone, coord, domainChan, domainClosed, resultChan,
                  resultClosed, finalStats, tokens, pool, wk, cache, output,
                  crashed, hist >>

\* config.go:101-113: no answer, or no base domain: false, nothing cached
RPIsWildcardNoBase ==
  /\ Running /\ rp.pc = "classify"
  /\ ~IsFailure(rp.cur) /\ cfg.wildcard
  /\ \/ ~rp.cur.hasResp
     \/ Len(rp.cur.answer) = 0
     \/ EffectiveTLDPlusOne(rp.cur.domain) = BaseErr
  /\ rp' = [rp EXCEPT !.pc = "verdict", !.verdict = FALSE]
  /\ UNCHANGED << cfg, ctxDone, coord, domainChan, domainClosed, resultChan,
                  resultClosed, stats, finalStats, tokens, pool, wk, cache,
                  output, crashed, hist >>

\* the result reaches the cache lookup of IsWildcard (config.go:115)
ReachesCache ==
  /\ rp.pc = "classify"
  /\ ~IsFailure(rp.cur) /\ cfg.wildcard
  /\ rp.cur.hasResp /\ Len(rp.cur.answer) > 0
  /\ EffectiveTLDPlusOne(rp.cur.domain) # BaseErr

\* config.go:116-120: the cached verdict is returned
RPIsWildcardCached ==
  /\ Running /\ ReachesCache
  /\ LET base == EffectiveTLDPlusOne(rp.cur.domain)
     IN /\ CacheHas(cache, base)
        /\ rp' = [rp EXCEPT !.pc = "verdict", !.base = base,
                            !.verdict = CacheGet(cache, base)]
        /\ hist' = [hist EXCEPT !.verdicts[base] = @ \cup {CacheGet(cache, base)}]
  /\ UNCHANGED << cfg, ctxDone, coord, domainChan, domainClosed, resultChan,
                  resultClosed, stats, finalStats, tokens, pool, wk, cache,
                  output, crashed >>

\* config.go:121-124, 141: a miss starts detectWildcard
RPIsWildcardMiss ==
  /\ Running /\ ReachesCache
  /\ LET base == EffectiveTLDPlusOne(rp.cur.domain)
     IN /\ ~CacheHas(cache, base)
        /\ rp' = [rp EXCEPT !.pc = "probe", !.base = base, !.probe = 1,
                            !.responses = <<>>]
        /\ hist' = [hist EXCEPT !.probeSeqs[base] = @ + 1]
  /\ UNCHANGED << cfg, ctxDone, coord, domainChan, domainClosed, resultChan,
                  resultClosed, stats, finalStats, tokens, pool, wk, cache,
                  output, crashed >>

\* the detector after one probe has returned its answers (config.go:146-169)
AfterProbe(answers) ==
  LET responses == Append(rp.responses, answers)
  IN IF Len(answers) = 0
     THEN [rp EXCEPT !.pc = "store", !.responses = responses, !.verdict = FALSE]
     ELSE IF rp.probe < ProbeCount
          THEN [rp EXCEPT !.probe = @ + 1, !.responses = responses]
          ELSE [rp EXCEPT !.pc = "store", !.responses = responses,
                          !.verdict = DetectVerdict(responses)]

\* config.go:146-154, 200-236: one probe; GetRandomResolver (resolver.go:135)
\* hands out nil for an empty pool, else Client.Exchange runs without context
RPProbe ==
  /\ Running /\ rp.pc = "probe"
  /\ pool' = AfterGetRandomResolver(pool)
  /\ IF pool.n = 0
     THEN /\ rp' = AfterProbe(<<>>)
          /\ UNCHANGED hist
     ELSE \E answers \in ProbeAnswers :
            /\ rp' = AfterProbe(answers)
            /\ hist' = [hist EXCEPT !.probeQueries[rp.base] = @ + 1,
                                    !.cancelExchanges = IF ctxDone THEN CountLate(@) ELSE @]
  /\ UNCHANGED << cfg, ctxDone, coord, domainChan, domainClosed, resultChan,
                  resultClosed, stats, finalStats, tokens, wk, cache,
                  output, crashed >>

\* config.go:126-135: the verdict is cached and returned
RPCacheStore ==
  /\ Running /\ rp.pc = "store"
  /\ cache' = CacheStore(cache, rp.base, rp.verdict)
  /\ rp' = [rp EXCEPT !.pc = "verdict"]
  /\ hist' = [hist EXCEPT !.verdicts[rp.base] = @ \cup {rp.verdict}]
  /\ UNCHANGED << cfg, ctxDone, coord, domainChan, domainClosed, resultChan,
                  resultClosed, stats, finalStats, tokens, pool, wk, output,
                  crashed >>

\* main.go:379-382
RPCountWildcard ==
  /\ Running /\ rp.pc = "verdict" /\ rp.verdict
  /\ stats' = IncrementWildcards(stats)
  /\ rp' = IdleProcessor
  /\ UNCHANGED << cfg, ctxDone, coord, domainChan, domainClosed, resultChan,
                  resultClosed, finalStats, tokens, pool, wk, cache, output,
                  crashed, hist >>

\* the result reaches main.go:385: no detector, or not a wildcard
ReachesAnswerCheck ==
  \/ rp.pc = "classify" /\ ~IsFailure(rp.cur) /\ ~cfg.wildcard
  \/ rp.pc = "verdict" /\ ~rp.verdict

\* the test looks at the response only, not at its answer section
HasAnswerResponseOnly(result) == result.hasResp

\* main.go:385 the test for an answered query
HasAnswer(result) == result.hasResp /\ Len(result.answer) > 0

\* main.go:385-387
RPCountSuccessful ==
  /\ Running /\ ReachesAnswerCheck
  /\ HasAnswer(rp.cur)
  /\ stats' = IncrementSuccessful(stats)
  /\ output' = WriteResult(output, rp.cur)
  /\ rp' = IdleProcessor
  /\ UNCHANGED << cfg, ctxDone, coord, domainChan, domainClosed, resultChan,
                  resultClosed, finalStats, tokens, pool, wk, cache, crashed,
                  hist >>

\* main.go:388-390
RPCountNoAnswer ==
  /\ Running /\ ReachesAnswerCheck
  /\ ~HasAnswer(rp.cur)
  /\ stats' = IncrementNoAnswer(stats)
  /\ rp' = IdleProcessor
  /\ UNCHANGED << cfg, ctxDone, coord, domainChan, domainClosed, resultChan,
                  resultClosed, finalStats, tokens, pool, wk, cache, output,
                  crashed, hist >>

\* ------------------------------------------------------------ specification
Next ==
  \/ Signal
  \/ CoordSkipLine
  \/ CoordSendDomain
  \/ CoordIncrementTotal
  \/ CoordCancelledIngest
  \/ CoordCloseDomains
  \/ CoordPollCancelled
  \/ CoordComplete
  \/ MainPrintFinalStats
  \/ MainClosePool
  \/ MainExit
  \/ MainFatal
  \/ LimiterRefill
  \/ \E w \in Workers : WorkerReceive(w)
  \/ \E w \in Workers : WorkerDomainsClosed(w)
  \/ \E w \in Workers : WorkerCancelledRecv(w)
  \/ \E w \in Workers : WorkerRateWait(w)
  \/ \E w \in Workers : WorkerGetResolver(w)
  \/ \E w \in Workers : WorkerExchangeReturn(w)
  \/ \E w \in Workers : WorkerSend(w)
  \/ \E w \in Workers : WorkerSendClosed(w)
  \/ \E w \in Workers : WorkerCancelledSend(w)
  \/ RPReceive
  \/ RPClosed
  \/ RPCancelled
  \/ RPIncrementProcessed
  \/ RPCountError
  \/ RPIsWildcardNoBase
  \/ RPIsWildcardCached
  \/ RPIsWildcardMiss
  \/ RPProbe
  \/ RPCacheStore
  \/ RPCountWildcard
  \/ RPCountSuccessful
  \/ RPCountNoAnswer

Spec == Init /\ [][Next]_vars

SpecRoundRobin ==
  (\E c \in RoundRobinConfigs : InitWith(c, NotCounted, NotCounted))
    /\ [][Next]_vars

SpecCancel ==
  (\E c \in CancelConfigs : InitWith(c, 0, NotCounted)) /\ [][Next]_vars

SpecRetry ==
  (\E c \in RetryConfigs : InitWith(c, NotCounted, NotCounted)) /\ [][Next]_vars

SpecNoBase ==
  (\E c \in NoBaseConfigs : InitWith(c, NotCounted, NotCounted)) /\ [][Next]_vars

SpecLimiter ==
  (\E c \in LimiterConfigs : InitWith(c, NotCounted, 0)) /\ [][Next]_vars

\* the steps of a run that no signal cancels
NextLive ==
  \/ CoordSkipLine
  \/ CoordSendDomain
  \/ CoordIncrementTotal
  \/ CoordCloseDomains
  \/ CoordComplete
  \/ MainPrintFinalStats
  \/ MainClosePool
  \/ MainExit
  \/ LimiterRefill
  \/ \E w \in Workers : WorkerReceive(w)
  \/ \E w \in Workers : WorkerDomainsClosed(w)
  \/ \E w \in Workers : WorkerRateWait(w)
  \/ \E w \in Workers : WorkerGetResolver(w)
  \/ \E w \in Workers : WorkerExchangeReturn(w)
  \/ \E w \in Workers : WorkerSend(w)
  \/ \E w \in Workers : WorkerSendClosed(w)
  \/ RPReceive
  \/ RPClosed
  \/ RPIncrementProcessed
  \/ RPCountError
  \/ RPIsWildcardNoBase
  \/ RPIsWildcardCached
  \/ RPIsWildcardMiss
  \/ RPProbe
  \/ RPCacheStore
  \/ RPCountWildcard
  \/ RPCountSuccessful
  \/ RPCountNoAnswer

\* no signal arrives, every exchange returns, and the scheduler lets the
\* process take a step whenever one of its goroutines can
SpecLive == Init /\ [][NextLive]_vars /\ WF_vars(NextLive)

\* ------------------------------------------- the -t flag (main.go:163-166)
\* tokens a user can type in the list of flag -t
TypeTokens ==
  << <<"a">>, <<"A", "A", "A", "A">>, <<"C", "n", "a", "m", "e">>,
     <<" ", "m", "x", " ">>, <<"n", "s">>, <<"T", "X", "T">>, <<"s", "o", "a">>,
     <<"p", "t", "r">>, <<"S", "r", "v">>, <<"2", "8">>,
     <<"6", "5", "5", "3", "5">>, <<"6", "5", "5", "3", "6">>, <<"0">>,
     <<"x", "x">>, <<>> >>

RECURSIVE JoinTokens(_)
JoinTokens(picks) ==
  IF Len(picks) = 0 THEN <<>>
  ELSE IF Len(picks) = 1 THEN TypeTokens[picks[1]]
  ELSE TypeTokens[picks[1]] \o <<",">> \o JoinTokens(Tail(picks))

TokenPicks ==
  UNION { [1..k -> 1..Len(TypeTokens)] : k \in 0..MaxTokens }

\* the configurations of the runs that start at the parse of flag -t; picks
\* are the tokens QueryTypes was typed from
ParseConfigs ==
  { [workers |-> 1, types |-> 1, retries |-> 0, wildcard |-> FALSE,
     resolvers |-> 1, domains |-> 1, qps |-> QPS, first |-> 1,
     picks |-> p, QueryTypes |-> JoinTokens(p)] : p \in TokenPicks }

\* main.go:163-166: processDNSQueries parses the flag and returns the error
ParseQueryTypesCall ==
  /\ Running /\ coord.pc = "parse"
  /\ LET r == parseQueryTypes(cfg.QueryTypes)
     IN  coord' = [coord EXCEPT !.pc = IF r.err THEN "fatal" ELSE "ingest",
                                !.queryTypes = r.result, !.err = r.err]
  /\ UNCHANGED << cfg, ctxDone, domainChan, domainClosed, resultChan,
                  resultClosed, stats, finalStats, tokens, pool, wk, rp, cache,
                  output, crashed, hist >>

NextParse == ParseQueryTypesCall

SpecParse ==
  /\ \E c \in ParseConfigs :
       InitAt(c, NotCounted, NotCounted,
              [pc |-> "parse", pos |-> 1, queryTypes |-> <<>>, err |-> FALSE])
  /\ [][NextParse]_vars

\* ================================================================ properties
CategorySum(s) == s.successful + s.errors + s.noAnswer + s.wildcards

\* C1: when processDNSQueries returns nil, processed equals total times the
\* number of configured record types.
C1_ProcessedIsTotalTimesTypes ==
  [][(coord.pc = "wait" /\ coord'.pc = "returned")
       => stats'.processed = stats'.total * cfg.types]_vars

\* C2: successful + errors + no_answer + wildcard_suppressed equals processed
\* whenever the counters are read: at any moment of the run (completion poll,
\* periodic reporter) and in the final summary printed by main.
C2_CategoriesSumToProcessed ==
  /\ CategorySum(stats) = stats.processed
  /\ coord.pc \in {"printed", "closed", "exit0"}
       => CategorySum(finalStats) = finalStats.processed

\* C3: during a pipeline run none of the six counters ever decreases from one
\* state to the next.
C3_CountersMonotonic ==
  [][/\ stats'.total >= stats.total
     /\ stats'.processed >= stats.processed
     /\ stats'.successful >= stats.successful
     /\ stats'.errors >= stats.errors
     /\ stats'.noAnswer >= stats.noAnswer
     /\ stats'.wildcards >= stats.wildcards]_vars

C3_Witness ==
  /\ stats.total = 2 /\ stats.processed = 2
  /\ stats.errors = 1 /\ stats.successful = 1

\* C4: for a pool of count > 0 resolvers, after k calls of GetResolver the
\* cursor is (initial + k) mod count and the i-th call returned the resolver
\* at position (initial + i - 1) mod count, whatever the callers and the
\* GetRandomResolver calls in between; the initial cursor is 0.
C4_RoundRobinCursor ==
  pool.n > 0 =>
    /\ pool.index = (0 + Len(hist.rrLog)) % pool.n
    /\ \A i \in 1..Len(hist.rrLog) :
         hist.rrLog[i] = AllResolvers[((0 + i - 1) % pool.n) + 1]

C4_Witness ==
  /\ cfg.workers = 1 /\ cfg.retries = 0 /\ pool.n = 2
  /\ hist.rrLog = <<"U1", "U2", "U1", "U2">>

\* C5: for any base domain at most one probe sequence, of at most three probe
\* queries, is issued per run, however many results of that base reach
\* IsWildcard; a base judged wildcard took exactly three probe queries, and
\* every result of that base that reaches the cache is suppressed.
C5_OneProbeSequencePerBase ==
  /\ \A b \in Bases :
       /\ hist.probeSeqs[b] <= 1
       /\ hist.probeQueries[b] <= ProbeCount
       /\ cache[b] = "wild" => hist.probeQueries[b] = ProbeCount
  /\ (rp.pc = "verdict" /\ rp.base \in Bases /\ cache[rp.base] = "wild")
       => rp.verdict

C5_Witness ==
  \E b \in Bases :
    /\ hist.probeSeqs[b] = 1 /\ hist.probeQueries[b] = ProbeCount
    /\ stats.wildcards = 2 /\ stats.successful = 0

\* C6: once IsWildcard has returned a verdict for a result of base B, every
\* later call for a result of base B returns the same verdict, and the cached
\* value of B never changes once written.
C6_VerdictStable ==
  \A b \in Bases :
    /\ Cardinality(hist.verdicts[b]) <= 1
    /\ cache[b] # "absent" => hist.verdicts[b] \subseteq {cache[b] = "wild"}

C6_Witness ==
  /\ rp.pc = "verdict" /\ rp.base \in Bases /\ rp.responses = <<>>
  /\ hist.probeSeqs[rp.base] = 1
  /\ hist.verdicts[rp.base] = {FALSE}
  /\ stats.successful = 1

\* C7: performDNSQuery makes at most retries+1 attempts; it stops at the first
\* attempt that returns without error and yields a Success with that response
\* and that attempt's resolver address; if every attempt fails it makes
\* exactly retries+1 attempts and yields a Failure with the last error.
C7_RetryPolicy ==
  \A w \in Workers :
    LET log == hist.attempts[w]
        r == wk[w].result
        last == log[Len(log)]
    IN /\ Len(log) <= cfg.retries + 1
       /\ \A i \in 1..(Len(log) - 1) : ~log[i].outcome.ok
       /\ (wk[w].pc = "send" /\ ~IsFailure(r)) =>
            /\ Len(log) >= 1 /\ last.outcome.ok
            /\ r.hasResp /\ r.rcode = last.outcome.rcode
            /\ r.answer = last.outcome.answer
            /\ r.resolver = last.resolver
       /\ (wk[w].pc = "send" /\ IsFailure(r)) =>
            /\ Len(log) = cfg.retries + 1
            /\ ~last.outcome.ok
            /\ r.err = last.err /\ ~r.hasResp

C7_Witness ==
  \E w \in Workers :
    /\ cfg.retries = 1 /\ wk[w].pc = "send" /\ IsFailure(wk[w].result)
    /\ Len(hist.attempts[w]) = 2
    /\ hist.attempts[w][1].exchanged /\ hist.attempts[w][2].exchanged
    /\ wk[w].result.err = ExchangeErr(1)

\* C8: a query answered with a REFUSED response is counted in errors and not
\* in no-answer; a query answered NOERROR with an empty answer section is
\* counted in no-answer and not in errors.
C8_RefusedIsError ==
  [][(rp.pc \in {"classify", "verdict"} /\ rp'.pc = "recv" /\ rp.cur.hasResp
        /\ Len(rp.cur.answer) = 0)
       => IF rp.cur.rcode = "REFUSED"
          THEN /\ stats'.errors = stats.errors + 1
               /\ stats'.noAnswer = stats.noAnswer
          ELSE /\ stats'.noAnswer = stats.noAnswer + 1
               /\ stats'.errors = stats.errors]_vars

\* C9: after cancellation is signalled no worker pushes a further result onto
\* the result queue.
C9_NoSendAfterCancel ==
  [][ctxDone => Len(resultChan') <= Len(resultChan)]_vars

\* C10: after cancellation is signalled, the number of UDP exchanges that
\* still complete is at most the number of workers.
C10_LateExchangesAtMostWorkers ==
  hist.cancelExchanges <= cfg.workers

\* C11: a run cancelled by a signal prints the final statistics summary before
\* it exits with a non-zero status: whenever the process has exited with
\* status 1 on the cancellation path, PrintFinalStats has run.
C11_StatsPrintedOnCancelExit ==
  (ctxDone /\ coord.pc = "exit1") => hist.printed

\* C12: when a run cancelled part-way through the input has ended, processed
\* is at most total and the four category counters sum to processed.
C12_CancelledRunCounters ==
  (ctxDone /\ coord.pc = "exit1" /\ coord.pos <= Len(Input)) =>
    /\ stats.processed <= stats.total
    /\ CategorySum(stats) = stats.processed

\* C13: the verdict of a probe sequence is wildcard exactly when all three
\* probes returned non-empty answer lists that are equal to one another; it is
\* not-wildcard when any probe returned an empty list (a failed exchange
\* included) and in every other case.
C13_ProbeVerdict ==
  rp.pc = "store" =>
    LET r == rp.responses
    IN /\ (\E i \in 1..Len(r) : r[i] = <<>>) => ~rp.verdict
       /\ rp.verdict <=> /\ Len(r) = ProbeCount
                         /\ \A i \in 1..Len(r) : r[i] # <<>>
                         /\ \A i, j \in 1..Len(r) : r[i] = r[j]

C13_Witness ==
  /\ rp.pc = "store" /\ rp.verdict
  /\ Len(rp.responses) = ProbeCount /\ Len(rp.responses[1]) = 2

\* two answer lists hold the same values, each as often, in whatever order
SameAnswers(a, b) ==
  /\ Len(a) = Len(b)
  /\ \A i \in 1..Len(a) :
       Cardinality({k \in 1..Len(a) : a[k] = a[i]})
         = Cardinality({k \in 1..Len(b) : b[k] = a[i]})

\* C14: probe answers are compared after sorting: three probes that return the
\* same non-empty collection of answer values, in whatever orders, yield the
\* verdict wildcard.
C14_OrderInsensitiveVerdict ==
  (/\ rp.pc = "store" /\ Len(rp.responses) = ProbeCount
   /\ \A i \in 1..ProbeCount : rp.responses[i] # <<>>
   /\ \A i, j \in 1..ProbeCount : SameAnswers(rp.responses[i], rp.responses[j]))
    => rp.verdict

\* the result processor is done with its current result
RPFinishes == rp.pc \in {"classify", "verdict"} /\ rp'.pc = "recv"

\* the detector is configured and has reported the current result as wildcard
ReportedWildcard == cfg.wildcard /\ rp.pc = "verdict" /\ rp.verdict

\* the counter a result belongs to
CategoryOf(result, reported) ==
  IF result.err # NoErr THEN "errors"
  ELSE IF result.hasResp /\ Len(result.answer) > 0
       THEN IF reported THEN "wildcards" ELSE "successful"
       ELSE "noAnswer"

CountedFields == {"processed", "successful", "errors", "noAnswer", "wildcards"}

\* C15: for every result the result processor receives, processed is
\* incremented exactly once and exactly one category counter is incremented:
\* errors for a Failure, wildcard for an answered Success that the configured
\* detector reports as wildcard, successful for any other answered Success,
\* no-answer for a Success with an empty answer.
C15_OneCategoryPerResult ==
  [][/\ (rp.pc = "received" /\ rp'.pc # "received") =>
          /\ rp'.pc = "classify" /\ rp'.cur = rp.cur
          /\ stats' = [stats EXCEPT !.processed = @ + 1]
     /\ (rp.pc # "received" /\ ~RPFinishes) =>
          \A f \in CountedFields : stats'[f] = stats[f]
     /\ (rp.pc \in {"classify", "probe", "store", "verdict"} /\ ~RPFinishes) =>
          rp'.cur = rp.cur
     /\ RPFinishes =>
          /\ stats' = [stats EXCEPT ![CategoryOf(rp.cur, ReportedWildcard)] = @ + 1]
          /\ rp.pc = "classify" => (rp.cur.err # NoErr \/ ~cfg.wildcard)]_vars

C15_Witness ==
  /\ rp.pc = "recv" /\ stats.processed = 2
  /\ stats.wildcards = 1 /\ stats.noAnswer = 1

\* C16: a result is handed to the output writer if and only if it is a Success
\* with a non-empty answer that is not reported as wildcard (or no detector is
\* configured); suppressed results, Failures and empty-answer Successes are
\* never written, and the written results are in the order of their receipt.
C16_WrittenIffAnswered ==
  [][IF RPFinishes
     THEN output' = IF CategoryOf(rp.cur, ReportedWildcard) = "successful"
                    THEN Append(output, rp.cur)
                    ELSE output
     ELSE output' = output]_vars

C16_Witness ==
  /\ Len(output) = 2 /\ output[1].domain = <<"a", "wild", "test">>
  /\ output[2].domain = <<"b", "wild", "test">>

\* a worker has left its loop, or can only leave it: it waits on the closed
\* and drained domain queue
WorkerDone(w) ==
  \/ wk[w].pc = "exit"
  \/ wk[w].pc = "recv" /\ domainClosed /\ domainChan = <<>>

\* likewise the result processor and the result queue
ProcessorDone ==
  \/ rp.pc = "exit"
  \/ rp.pc = "recv" /\ resultClosed /\ resultChan = <<>>

PipelineCompleted ==
  /\ ~crashed
  /\ domainClosed /\ resultClosed
  /\ coord.pc \in {"returned", "printed", "closed", "exit0"}
  /\ \A w \in Workers : WorkerDone(w)
  /\ ProcessorDone

\* C17: with finite input, no cancellation and every exchange returning, the
\* pipeline eventually completes: the domain queue is closed, every worker has
\* drained it and leaves, the coordinator has closed the result queue and
\* returned nil, and the result processor has drained it and leaves.
C17_EventuallyCompletes == <>PipelineCompleted

C19_AttemptOnlyAfterToken ==
  [][\A w \in Workers :
       (wk[w].pc = "ratewait" /\ wk'[w].pc = "attempt") =>
         (~ctxDone /\ tokens' = tokens - 1)]_vars

\* C20: every blocking UDP exchange observes the cancellation: once the root
\* context is cancelled, an exchange in flight, a worker's query attempt or a
\* wildcard probe of the result processor, is aborted and delivers no
\* response.
C20_ExchangesObserveCancel ==
  [][ctxDone =>
       /\ \A w \in hist.inflight :
            (wk[w].pc = "exchange" /\ wk'[w].pc # "exchange") =>
              ~wk'[w].result.hasResp
       /\ (rp.pc = "probe" /\ pool.n > 0 /\ rp' # rp) =>
            rp'.responses[Len(rp'.responses)] = <<>>]_vars

\* the resolvers of the pool's list, as constructed
PoolList == { AllResolvers[k] : k \in 1..cfg.resolvers }

\* C21: the round-robin cursor lies in [0, len(resolvers)) in every reachable
\* state, a pool constructed with no live resolver and the pool emptied by
\* Close included.
C21_CursorInRange == pool.index \in 0..(pool.n - 1)

\* C21, amended: whenever the list is non-empty the cursor lies in
\* [0, len(resolvers)), and every resolver GetResolver has handed out is an
\* element of the list; over an empty list the cursor keeps its value (0 after
\* construction) and is not used.
C21_CursorInRangeWhenNonEmpty ==
  /\ pool.index >= 0
  /\ pool.n > 0 => pool.index \in 0..(pool.n - 1)
  /\ pool.n = 0 => pool.index \in 0..(cfg.resolvers - 1) \cup {0}
  /\ \A i \in 1..Len(hist.rrLog) : hist.rrLog[i] \in PoolList

C21_Witness ==
  /\ cfg.resolvers = 2 /\ pool.n = 0 /\ pool.index = 1
  /\ Len(hist.rrLog) = 1

\* C22: with a pool of at least two resolvers, two successive attempts of the
\* same (domain, record type) are sent to different upstream endpoints,
\* whatever the other workers do in between.
C22_SuccessiveAttemptsDiffer ==
  (pool.n >= 2 /\ ~ctxDone) =>
    \A w \in Workers : \A i \in 1..(Len(hist.attempts[w]) - 1) :
      (hist.attempts[w][i].exchanged /\ hist.attempts[w][i + 1].exchanged)
        => hist.attempts[w][i].resolver # hist.attempts[w][i + 1].resolver

\* C23: with an empty resolver pool GetResolver hands out none on every call;
\* performDNSQuery finishes after retries+1 attempts without any UDP exchange
\* and yields a Failure with the error "no resolvers available", which the
\* result processor counts in errors.
C23_EmptyPoolFailsFast ==
  [][cfg.resolvers = 0 =>
       /\ hist'.rrLog = <<>>
       /\ \A w \in Workers :
            /\ wk'[w].pc # "exchange"
            /\ \A i \in 1..Len(hist'.attempts[w]) : ~hist'.attempts[w][i].exchanged
            /\ wk'[w].pc = "send" =>
                 /\ Len(hist'.attempts[w]) = cfg.retries + 1
                 /\ ~wk'[w].result.hasResp
                 /\ wk'[w].result.err =
                      [kind |-> "no resolvers available", attempt |-> 0]
       /\ RPFinishes => stats' = [stats EXCEPT !.errors = @ + 1]]_vars

C23_Witness ==
  /\ cfg.resolvers = 0 /\ cfg.retries = 1
  /\ rp.pc = "recv" /\ stats.processed = 1 /\ stats.errors = 1

\* C24: when the pool hands out none for a wildcard probe, IsWildcard returns
\* not-wildcard and stores no entry for the base domain in the cache.
C24_NoCacheWithoutResolver ==
  [][(rp.pc = "store" /\ rp'.pc = "verdict" /\ hist.probeQueries[rp.base] = 0) =>
       (~rp'.verdict /\ cache' = cache)]_vars

\* C25: when the effective TLD+1 of the result's domain cannot be computed,
\* or the result has an empty answer section, IsWildcard returns not-wildcard,
\* issues no probe query and leaves the wildcard cache unchanged.
C25_NoBaseNoProbe ==
  [][/\ (/\ rp.pc = "classify" /\ cfg.wildcard /\ rp.cur.err = NoErr
         /\ (Len(rp.cur.answer) = 0 \/ Len(rp.cur.domain) < 2)
         /\ rp' # rp) =>
          /\ rp'.pc = "verdict" /\ ~rp'.verdict
          /\ cache' = cache
          /\ hist'.probeSeqs = hist.probeSeqs
          /\ hist'.probeQueries = hist.probeQueries
     /\ (rp.pc = "verdict" /\ rp' # rp) =>
          /\ rp'.pc = "recv" /\ cache' = cache
          /\ hist'.probeQueries = hist.probeQueries]_vars

C25_Witness ==
  /\ rp.pc = "verdict" /\ ~rp.verdict
  /\ rp.cur.domain = <<"localhost">> /\ Len(rp.cur.answer) > 0
  /\ \A b \in Bases : cache[b] = "absent"

\* C26: within a worker the queries for one received domain are issued, and
\* their results pushed to the result queue, in the configured record-type
\* order; the worker pushes all results of a domain before it receives the
\* next one.
C26_TypeOrderPerDomain ==
  [][\A w \in Workers :
       /\ (wk[w].pc = "recv" /\ wk'[w].pc \notin {"recv", "exit"}) =>
            /\ wk'[w].pc = "ratewait" /\ wk'[w].qi = 1
            /\ wk'[w].domain = Head(domainChan)
       /\ (wk[w].pc # "recv" /\ wk'[w].pc # "exit") =>
            wk'[w].domain \in {wk[w].domain, NoDomain}
       /\ (wk[w].pc # "recv" /\ wk'[w].pc = "recv") =>
            /\ wk[w].pc = "send" /\ wk[w].qi = cfg.types
            /\ resultChan' = Append(resultChan, wk[w].result)
       /\ (wk[w].pc = "send" /\ wk'[w].pc \notin {"send", "exit"}) =>
            /\ resultChan' = Append(resultChan, wk[w].result)
            /\ wk[w].result.domain = wk[w].domain
            /\ wk[w].result.qtype = SubSeq(AllQueryTypes, 1, cfg.types)[wk[w].qi]
            /\ wk[w].qi < cfg.types =>
                 /\ wk'[w].pc = "ratewait" /\ wk'[w].qi = wk[w].qi + 1
                 /\ wk'[w].domain = wk[w].domain
       /\ (wk[w].pc \notin {"send", "recv"} /\ wk'[w].pc # "exit") =>
            wk'[w].qi = wk[w].qi]_vars

C26_Witness ==
  \E w \in Workers :
    /\ wk[w].pc = "send" /\ wk[w].qi = 2 /\ wk[w].result.qtype = "AAAA"
    /\ ~ctxDone /\ stats.processed = 1

\* the trimmed input lines up to line k that are non-empty and do not start
\* with '#', in input order
RECURSIVE DomainsUpTo(_)
DomainsUpTo(k) ==
  IF k = 0 THEN <<>>
  ELSE LET t == TrimSpace(Input[k])
       IN  IF Len(t) > 0 /\ t[1] # "#" THEN Append(DomainsUpTo(k - 1), t)
           ELSE DomainsUpTo(k - 1)

\* the lines the ingester has dealt with
LinesRead == IF coord.pc = "inctotal" THEN coord.pos ELSE coord.pos - 1

\* C27: the ingester sends every input line that is non-empty after trimming
\* and does not start with '#' to the domain queue exactly once, in input
\* order, and increments total exactly once per domain sent; skipped lines
\* change neither the queue nor total; each sent domain is received by
\* exactly one worker.
C27_IngestExactlyOnce ==
  /\ [](/\ coord.pc # "inctotal" => stats.total = Len(DomainsUpTo(LinesRead))
        /\ coord.pc = "inctotal" => stats.total + 1 = Len(DomainsUpTo(LinesRead))
        /\ \E i \in 0..Len(DomainsUpTo(LinesRead)) :
             domainChan = SubSeq(DomainsUpTo(LinesRead), i + 1,
                                 Len(DomainsUpTo(LinesRead)))
        /\ coord.pc \in {"wait", "returned"} => LinesRead = Len(Input))
  /\ [][/\ (coord'.pos # coord.pos /\ coord.pc = "ingest") =>
             /\ DomainsUpTo(coord.pos) = DomainsUpTo(coord.pos - 1)
             /\ domainChan' = domainChan /\ stats' = stats
        /\ (coord.pc = "ingest" /\ coord'.pc = "inctotal") =>
             /\ domainChan' = Append(domainChan, TrimSpace(Input[coord.pos]))
             /\ DomainsUpTo(coord.pos) =
                  Append(DomainsUpTo(coord.pos - 1), TrimSpace(Input[coord.pos]))
             /\ stats' = stats
        /\ stats'.total # stats.total =>
             /\ coord.pc = "inctotal" /\ coord'.pos = coord.pos + 1
             /\ stats'.total = stats.total + 1 /\ domainChan' = domainChan
        /\ (domainChan' # domainChan /\ coord' = coord) =>
             /\ domainChan' = Tail(domainChan)
             /\ \E w \in Workers :
                  /\ wk[w].pc = "recv" /\ wk'[w].domain = Head(domainChan)
                  /\ \A v \in Workers \ {w} : wk'[v] = wk[v]
        /\ \A w \in Workers :
             (wk[w].pc = "recv" /\ wk'[w].pc = "ratewait") =>
                domainChan' = Tail(domainChan)]_vars

C27_Witness ==
  /\ coord.pc = "wait" /\ ~ctxDone /\ stats.total = 2
  /\ DomainsUpTo(Len(Input)) = << <<"a", "wild", "test">>, <<"b", "wild", "test">> >>
  /\ domainChan = <<>> /\ cfg.workers = 2
  /\ wk[1].domain = <<"a", "wild", "test">> /\ wk[2].domain = <<"b", "wild", "test">>

\* the code a token stands for: the nine record-type names in any case, or a
\* decimal integer between 1 and 65535; 0 for any other token
ExpectedCodes == << 1, 28, 5, 15, 2, 16, 6, 12, 33, 28, 65535, 0, 0, 0, 0 >>

\* C28: parseQueryTypes accepts a comma-separated list whose tokens, in any
\* case and after trimming, are each one of A, AAAA, CNAME, MX, NS, TXT, SOA,
\* PTR, SRV or a decimal integer n with 0 < n < 65536, and returns the type
\* codes in list order; if any token is neither, it returns an error and no
\* types.
C28_ParseQueryTypes ==
  (coord.pc # "parse" /\ Len(cfg.picks) > 0 /\ cfg.QueryTypes # <<>>) =>
    IF \A i \in 1..Len(cfg.picks) : ExpectedCodes[cfg.picks[i]] # 0
    THEN /\ ~coord.err /\ coord.pc = "ingest"
         /\ coord.queryTypes =
              [i \in 1..Len(cfg.picks) |-> ExpectedCodes[cfg.picks[i]]]
    ELSE coord.err /\ coord.queryTypes = <<>> /\ coord.pc = "fatal"

C28_Witness ==
  /\ coord.pc = "ingest" /\ cfg.QueryTypes = <<" ", "m", "x", " ", ",", "2", "8">>
  /\ coord.queryTypes = <<15, 28>>

\* C29: parseQueryTypes applied to the empty string returns the default [A]
\* rather than an error.
C29_EmptyDefaultsToA ==
  (coord.pc # "parse" /\ cfg.QueryTypes = <<>>) =>
    ~coord.err /\ coord.queryTypes = <<1>>

\* C30: GetRandomResolver never changes the round-robin cursor or the
\* resolver list: wildcard probes interleaved with worker queries do not
\* alter the sequence of endpoints that GetResolver hands out, and each
\* accessor call advances the cursor by at most one.
C30_RandomAccessorLeavesCursor ==
  /\ [](pool.n > 0 =>
          \A i \in 1..Len(hist.rrLog) :
            hist.rrLog[i] = AllResolvers[((i - 1) % pool.n) + 1])
  /\ [][/\ (rp.pc = "probe" /\ rp' # rp) =>
             /\ pool' = pool /\ hist'.rrLog = hist.rrLog
        /\ (pool'.index # pool.index) =>
             /\ pool.n > 0 /\ pool'.n = pool.n /\ rp' = rp
             /\ pool'.index = (pool.index + 1) % pool.n
             /\ hist'.rrLog = Append(hist.rrLog, AllResolvers[pool.index + 1])
             /\ \E w \in Workers :
                  /\ wk[w].pc = "attempt"
                  /\ wk'[w].resolver = AllResolvers[pool.index + 1]
                  /\ \A v \in Workers \ {w} : wk'[v] = wk[v]]_vars

C30_Witness ==
  /\ rp.pc = "probe" /\ rp.base \in Bases /\ hist.probeQueries[rp.base] >= 1
  /\ pool.n = 2 /\ pool.index = 1 /\ hist.rrLog = <<"U1">>
  /\ \E w \in Workers : wk[w].pc = "attempt"

\* C31: no worker ever attempts to send on the result queue after the
\* coordinator has closed it: when close(resultChan) is executed every worker
\* has already pushed all results it will ever push.
C31_NoSendAfterClose ==
  (resultClosed /\ ~ctxDone) =>
    /\ ~crashed
    /\ \A w \in Workers : wk[w].pc \in {"recv", "exit"}

\* C32: on clean completion, by the time main prints the final statistics and
\* exits, every result counted in processed has had its category counter
\* incremented and, if it is a non-wildcard success with a non-empty answer,
\* has been written to the output; no result is still being classified,
\* probed for wildcard or waiting to be written.
C32_AllClassifiedAtExit ==
  (coord.pc \in {"printed", "closed", "exit0"} /\ ~ctxDone /\ cfg.types = 1) =>
    /\ rp.pc \in {"recv", "exit"}
    /\ CategorySum(finalStats) = finalStats.processed
    /\ Len(output) = finalStats.successful

====
